---- MODULE Spec2Model ----
(***************************************************************************)
(* A model of tracing-web: the PerformanceEventsLayer of                   *)
(* src/src/performance_layer.rs, which turns span lifecycle callbacks into *)
(* marks and measures of the host Performance object, and the              *)
(* ConsoleWriter of src/src/console_writer.rs, which buffers the bytes     *)
(* written to it and hands them to one console method when it is dropped.  *)
(*                                                                         *)
(* Strings are TLA+ strings, concatenated with \o.  An Option<&str> is a   *)
(* record [some, str]: Some("") and None are different values.             *)
(***************************************************************************)
EXTENDS Integers, Sequences, FiniteSets, TLC

VARIABLES
    fmt_details,   \* PerformanceEventsLayer.fmt_details: "Unit" for (), "FromFields"
    debug_build,   \* cfg!(debug_assertions), a constant of the build: "yes" or "no",
                   \* and "unread" until on_id_change, which alone reads it, runs
    PERF,          \* the thread-local PERF: "uninit" until its first use, then "ready"
    perf_lookups,  \* how often Global::performance() was evaluated
    registry,      \* the registry's spans: id -> [live, name, ext, born]
    timeline,      \* every host mark / measure call attempted, in order
    calls,         \* every layer callback delivered, in order
    ext_before,    \* the spans' detail stores as the last callback found them
    console,       \* every call of a console method, in order
    maker,         \* the MakeWriter the subscriber was built with
    writers        \* the ConsoleWriters made so far

vars == <<fmt_details, debug_build, PERF, perf_lookups, registry, timeline, calls, ext_before,
          console, maker, writers>>

----------------------------------------------------------------------------
(* Bounds of the model *)

MaxCalls == 4
MaxSpans == 2
\* How many faults one run may hold: host calls that fail and calls of the
\* field formatter that return an error.
MaxFaults == 1
\* How many ConsoleWriters are made and how many write calls they receive.
MaxWriters == 2
MaxWrites == 2

SpanIds == 1 .. MaxSpans
SpanNames == {"req", "db"}
\* The field sets a span is created with and the field sets recorded later,
\* each field already rendered as "key=value".
AttrSets == {<< >>, <<"a=1">>}
RecordSets == {<< >>, <<"b=2">>}

----------------------------------------------------------------------------
(* Option<&str> *)

None == [some |-> FALSE, str |-> ""]
Some(s) == [some |-> TRUE, str |-> s]

Last(s) == s[Len(s)]

----------------------------------------------------------------------------
(* The wrapped field formatter N: FormatFields, as the layer calls it.     *)
(* errAt is the number of fields written before the formatter returns      *)
(* fmt::Error; errAt = Len(fields) is a call that succeeds.                *)

RECURSIVE JoinFields(_, _)
JoinFields(fields, n) ==
    IF n = 0 THEN ""
    ELSE IF n = 1 THEN fields[1]
    ELSE JoinFields(fields, n - 1) \o " " \o fields[n]

\* inner.format_fields(writer, fields): appends the fields, separated by
\* one space, to the writer's string.
format_fields(writer, fields, errAt) ==
    [ok |-> errAt >= Len(fields),
     fields |-> writer \o JoinFields(fields, IF errAt >= Len(fields) THEN Len(fields) ELSE errAt)]

\* inner.add_fields(current, fields): pads a non-empty string with one space
\* and formats the new fields after it.
add_fields(current, fields, errAt) ==
    format_fields(IF current # "" THEN current \o " " ELSE current, fields, errAt)

----------------------------------------------------------------------------
(* FormatSpan and its two implementations *)

Unit_find_details(ext) == None
\* add_details of () storing the formatted attributes.
Unit_add_details_stores(ext, attrs, errAt) == Some(JoinFields(attrs, Len(attrs)))
Unit_add_details(ext, attrs, errAt) == ext
Unit_record_values(ext, values, errAt) == ext

\* add_formatted_fields without the is_none() test: it formats and inserts
\* whatever the extensions hold.
add_formatted_fields_overwrite(ext, fields, errAt) ==
    LET fmt_fields == format_fields("", fields, errAt)
    IN  IF fmt_fields.ok THEN Some(fmt_fields.fields) ELSE ext

add_formatted_fields(ext, fields, errAt) ==
    IF ~ext.some
    THEN LET fmt_fields == format_fields("", fields, errAt)
         IN  IF fmt_fields.ok THEN Some(fmt_fields.fields) ELSE ext
    ELSE ext

FromFields_find_details(ext) ==
    IF ~ext.some THEN None ELSE Some(ext.str)

FromFields_add_details(ext, attrs, errAt) ==
    add_formatted_fields(ext, attrs, errAt)

\* record_values formatting the new fields alone, in place of the old string.
FromFields_record_values_replace(ext, values, errAt) ==
    LET fmt_fields == format_fields("", values, errAt)
    IN  IF fmt_fields.ok THEN Some(fmt_fields.fields) ELSE ext

\* record_values putting the new fields before the old string.
FromFields_record_values_prepend(ext, values, errAt) ==
    IF ext.some
    THEN Some(add_fields(format_fields("", values, errAt).fields, <<ext.str>>, 1).fields)
    ELSE add_formatted_fields(ext, values, errAt)

FromFields_record_values(ext, values, errAt) ==
    IF ext.some
    THEN Some(add_fields(ext.str, values, errAt).fields)
    ELSE add_formatted_fields(ext, values, errAt)

find_details(fmt, ext) ==
    IF fmt = "Unit" THEN Unit_find_details(ext) ELSE FromFields_find_details(ext)

add_details(fmt, ext, attrs, errAt) ==
    IF fmt = "Unit" THEN Unit_add_details(ext, attrs, errAt)
    ELSE FromFields_add_details(ext, attrs, errAt)

record_values(fmt, ext, values, errAt) ==
    IF fmt = "Unit" THEN Unit_record_values(ext, values, errAt)
    ELSE FromFields_record_values(ext, values, errAt)

----------------------------------------------------------------------------
(* Mark and measure names *)

\* template_name with the id and the separators of another format string.
template_name_unbracketed(span_id, name, event_name) ==
    name \o " " \o ToString(span_id) \o ": " \o event_name

\* template_name without the span id.
template_name_no_id(span_id, name, event_name) ==
    name \o ": " \o event_name

template_name(span_id, name, event_name) ==
    name \o " [" \o ToString(span_id) \o "]: " \o event_name

span_enter_name(span_id, name) == template_name(span_id, name, "span-enter")
span_exit_name(span_id, name) == template_name(span_id, name, "span-exit")
span_record_name(span_id, name) == template_name(span_id, name, "span-record")
span_measure_name(span_id, name) == template_name(span_id, name, "span-measure")

----------------------------------------------------------------------------
(* The host calls of Performance.  Each yields the call as the host sees   *)
(* it; `ok` is the host's answer and `call` the callback that made it.     *)

mark(name, ok, call) ==
    [method |-> "mark", name |-> name, detail |-> None,
     start |-> "", end |-> "", ok |-> ok, call |-> call]

mark_detailed(name, details, ok, call) ==
    [method |-> "mark", name |-> name, detail |-> Some(details),
     start |-> "", end |-> "", ok |-> ok, call |-> call]

measure(name, start, end, ok, call) ==
    [method |-> "measure", name |-> name, detail |-> None,
     start |-> start, end |-> end, ok |-> ok, call |-> call]

measure_detailed(name, start, end, details, ok, call) ==
    [method |-> "measure", name |-> name, detail |-> Some(details),
     start |-> start, end |-> end, ok |-> ok, call |-> call]

\* The marks the host holds: those whose call succeeded.
HostHasMark(tl, name) ==
    \E i \in 1 .. Len(tl) : tl[i].method = "mark" /\ tl[i].ok /\ tl[i].name = name

\* performance.measure(name, start, end) throws when a named mark does not
\* exist; otherwise the host may still fail the call.
MeasureAnswers(tl, start, end, atWill) ==
    IF HostHasMark(tl, start) /\ HostHasMark(tl, end) THEN atWill ELSE {FALSE}

\* The answers the host may give to a mark: it fails a call at will, within
\* the bound on faults.
HostFailures == Cardinality({i \in 1 .. Len(timeline) : ~timeline[i].ok})
FmtErrors == Cardinality({i \in 1 .. Len(calls) : calls[i].errAt < Len(calls[i].fields)})
MarkAnswers == IF HostFailures + FmtErrors < MaxFaults THEN BOOLEAN ELSE {TRUE}

\* What globalThis.performance may evaluate to when PERF is first used.
PerformanceAnswers == IF PERF = "uninit" THEN {"object", "undefined"} ELSE {"object"}

----------------------------------------------------------------------------
(* The state *)

NoSpan == [live |-> FALSE, name |-> "", ext |-> None, born |-> 0]

ExtOf(reg) == [i \in SpanIds |-> reg[i].ext]

Call(cb, id, fields, errAt, returned) ==
    [cb |-> cb, id |-> id, fields |-> fields, errAt |-> errAt,
     returned |-> returned]

\* A panic ends the program: no callback follows one that did not return.
Running == IF calls = << >> THEN TRUE ELSE Last(calls).returned
CanCall == Running /\ Len(calls) < MaxCalls

LayerInit ==
    /\ fmt_details \in {"Unit", "FromFields"}
    /\ debug_build = "unread"
    /\ PERF = "uninit"
    /\ perf_lookups = 0
    /\ registry = [i \in SpanIds |-> NoSpan]
    /\ timeline = << >>
    /\ calls = << >>
    /\ ext_before = [i \in SpanIds |-> None]

\* The layer's specification: the subscriber's writer is never used.
Init ==
    /\ LayerInit
    /\ console = << >>
    /\ maker = [type |-> "MakeConsoleWriter", use_pretty_label |-> FALSE]
    /\ writers = << >>

----------------------------------------------------------------------------
(* The callbacks of impl Layer for PerformanceEventsLayer *)

\* ctx.span(id).expect(..) found no span, an assert! failed or an unwrap met
\* an error: the callback does not return.
Panicked(cb, id) == Append(calls, Call(cb, id, << >>, 0, FALSE))
\* Where a call of the formatter on `fields` may fail: nowhere (Len(fields))
\* or, within the bound on faults, at any of its fields.  The () formatter
\* wraps no FormatFields and formats nothing, so nothing fails in it.
ErrAtChoices(fields) ==
    IF fmt_details = "FromFields" /\ HostFailures + FmtErrors < MaxFaults
    THEN 0 .. Len(fields) ELSE {Len(fields)}
Returned(cb, id, fields, errAt) == Append(calls, Call(cb, id, fields, errAt, TRUE))

\* PERF.with(..) evaluating Global::performance() at every use.
PERF_with_uncached(perf) ==
    /\ perf_lookups' = perf_lookups + 1
    /\ PERF' = IF perf = "undefined" THEN PERF ELSE "ready"

\* PERF.with(..): the first use evaluates Global::performance() and asserts
\* that it is not undefined.
PERF_with(perf) ==
    /\ perf_lookups' = IF PERF = "uninit" THEN perf_lookups + 1 ELSE perf_lookups
    /\ PERF' = IF perf = "undefined" THEN PERF ELSE "ready"

\* The closures handed to PERF.with: the host calls each one attempts.
on_record_closure(span_id, name, ext, ok, call) ==
    LET details == find_details(fmt_details, ext)
        mark_name == span_record_name(span_id, name)
    IN  IF details.some
        THEN << mark_detailed(mark_name, details.str, ok, call) >>
        ELSE << mark(mark_name, ok, call) >>

\* on_enter's closure marking a second time when the host failed the first.
on_enter_closure_retry(span_id, name, ext, ok, call) ==
    LET mark_name == span_enter_name(span_id, name)
    IN  IF ok THEN << mark(mark_name, ok, call) >>
        ELSE << mark(mark_name, ok, call), mark(mark_name, TRUE, call) >>

\* on_enter's closure taking an empty detail string for no details.
on_enter_closure_skip_empty(span_id, name, ext, ok, call) ==
    LET details == find_details(fmt_details, ext)
        mark_name == span_enter_name(span_id, name)
    IN  IF details.some /\ details.str # ""
        THEN << mark_detailed(mark_name, details.str, ok, call) >>
        ELSE << mark(mark_name, ok, call) >>

\* on_enter's closure marking only the first entry of a span: none when the
\* host already holds a mark of that name.
on_enter_closure_once(span_id, name, ext, ok, call) ==
    LET details == find_details(fmt_details, ext)
        mark_name == span_enter_name(span_id, name)
    IN  IF HostHasMark(timeline, mark_name) THEN << >>
        ELSE IF details.some
        THEN << mark_detailed(mark_name, details.str, ok, call) >>
        ELSE << mark(mark_name, ok, call) >>

on_enter_closure(span_id, name, ext, ok, call) ==
    LET details == find_details(fmt_details, ext)
        mark_name == span_enter_name(span_id, name)
    IN  IF details.some
        THEN << mark_detailed(mark_name, details.str, ok, call) >>
        ELSE << mark(mark_name, ok, call) >>

\* on_exit's closure without the `?` after the exit mark.
on_exit_closure_unchecked(span_id, name, ext, okMark, okMeasure, call) ==
    LET mark_exit_name == span_exit_name(span_id, name)
    IN  << mark(mark_exit_name, okMark, call),
           measure(span_measure_name(span_id, name), span_enter_name(span_id, name),
                   mark_exit_name, okMeasure, call) >>

on_exit_closure(span_id, name, ext, okMark, okMeasure, call) ==
    LET details == find_details(fmt_details, ext)
        mark_enter_name == span_enter_name(span_id, name)
        mark_exit_name == span_exit_name(span_id, name)
        mark_measure_name == span_measure_name(span_id, name)
    IN  IF details.some
        THEN IF ~okMark
             THEN << mark_detailed(mark_exit_name, details.str, okMark, call) >>
             ELSE << mark_detailed(mark_exit_name, details.str, okMark, call),
                     measure_detailed(mark_measure_name, mark_enter_name,
                                      mark_exit_name, details.str, okMeasure, call) >>
        ELSE IF ~okMark
             THEN << mark(mark_exit_name, okMark, call) >>
             ELSE << mark(mark_exit_name, okMark, call),
                     measure(mark_measure_name, mark_enter_name, mark_exit_name,
                             okMeasure, call) >>

\* The registry makes the span, under the lowest id no live span holds, and
\* then calls on_new_span.
FreeIds == {i \in SpanIds : ~registry[i].live}
NextId == CHOOSE i \in FreeIds : \A j \in FreeIds : i <= j

\* on_new_span marking the creation of the span.
on_new_span_marking(name, attrs, errAt) ==
    /\ CanCall
    /\ FreeIds # {}
    /\ registry' = [registry EXCEPT ![NextId] =
                       [live |-> TRUE, name |-> name,
                        ext |-> add_details(fmt_details, None, attrs, errAt),
                        born |-> Len(calls) + 1]]
    /\ timeline' = Append(timeline,
                          mark(template_name(NextId, name, "span-new"), TRUE, Len(calls) + 1))
    /\ calls' = Returned("on_new_span", NextId, attrs, errAt)
    /\ ext_before' = ExtOf(registry)
    /\ UNCHANGED <<fmt_details, debug_build, PERF, perf_lookups, console, maker, writers>>

on_new_span(name, attrs, errAt) ==
    /\ CanCall
    /\ FreeIds # {}
    /\ registry' = [registry EXCEPT ![NextId] =
                       [live |-> TRUE, name |-> name,
                        ext |-> add_details(fmt_details, None, attrs, errAt),
                        born |-> Len(calls) + 1]]
    /\ calls' = Returned("on_new_span", NextId, attrs, errAt)
    /\ ext_before' = ExtOf(registry)
    /\ UNCHANGED <<fmt_details, debug_build, PERF, perf_lookups, timeline, console, maker, writers>>

\* on_record keeping the details in one place for all spans instead of the
\* extensions of the span it is called for.
on_record_shared_store(id, values, errAt, perf, ok) ==
    /\ CanCall
    /\ IF ~registry[id].live
       THEN /\ calls' = Panicked("on_record", id)
            /\ UNCHANGED <<registry, PERF, perf_lookups, timeline>>
       ELSE LET span == registry[id]
                ext == record_values(fmt_details, span.ext, values, errAt)
            IN  /\ registry' = [i \in SpanIds |->
                                   IF registry[i].live THEN [registry[i] EXCEPT !.ext = ext]
                                   ELSE registry[i]]
                /\ PERF_with(perf)
                /\ IF perf = "undefined"
                   THEN /\ calls' = Panicked("on_record", id)
                        /\ UNCHANGED timeline
                   ELSE /\ timeline' = timeline \o
                               on_record_closure(id, span.name, ext, ok, Len(calls) + 1)
                        /\ calls' = Returned("on_record", id, values, errAt)
    /\ ext_before' = ExtOf(registry)
    /\ UNCHANGED <<fmt_details, debug_build, console, maker, writers>>

on_record(id, values, errAt, perf, ok) ==
    /\ CanCall
    /\ IF ~registry[id].live
       THEN /\ calls' = Panicked("on_record", id)
            /\ UNCHANGED <<registry, PERF, perf_lookups, timeline>>
       ELSE LET span == registry[id]
                ext == record_values(fmt_details, span.ext, values, errAt)
            IN  /\ registry' = [registry EXCEPT ![id].ext = ext]
                /\ PERF_with(perf)
                /\ IF perf = "undefined"
                   THEN /\ calls' = Panicked("on_record", id)
                        /\ UNCHANGED timeline
                   ELSE /\ timeline' = timeline \o
                               on_record_closure(id, span.name, ext, ok, Len(calls) + 1)
                        /\ calls' = Returned("on_record", id, values, errAt)
    /\ ext_before' = ExtOf(registry)
    /\ UNCHANGED <<fmt_details, debug_build, console, maker, writers>>

on_enter(id, perf, ok) ==
    /\ CanCall
    /\ IF ~registry[id].live
       THEN /\ calls' = Panicked("on_enter", id)
            /\ UNCHANGED <<PERF, perf_lookups, timeline>>
       ELSE LET span == registry[id]
            IN  /\ PERF_with(perf)
                /\ IF perf = "undefined"
                   THEN /\ calls' = Panicked("on_enter", id)
                        /\ UNCHANGED timeline
                   ELSE /\ timeline' = timeline \o
                               on_enter_closure(id, span.name, span.ext, ok, Len(calls) + 1)
                        /\ calls' = Returned("on_enter", id, << >>, 0)
    /\ ext_before' = ExtOf(registry)
    /\ UNCHANGED <<fmt_details, debug_build, registry, console, maker, writers>>

on_exit(id, perf, okMark, okMeasure) ==
    /\ CanCall
    /\ IF ~registry[id].live
       THEN /\ calls' = Panicked("on_exit", id)
            /\ UNCHANGED <<PERF, perf_lookups, timeline>>
       ELSE LET span == registry[id]
            IN  /\ PERF_with(perf)
                /\ IF perf = "undefined"
                   THEN /\ calls' = Panicked("on_exit", id)
                        /\ UNCHANGED timeline
                   ELSE /\ timeline' = timeline \o
                               on_exit_closure(id, span.name, span.ext, okMark,
                                               okMeasure, Len(calls) + 1)
                        /\ calls' = Returned("on_exit", id, << >>, 0)
    /\ ext_before' = ExtOf(registry)
    /\ UNCHANGED <<fmt_details, debug_build, registry, console, maker, writers>>

id_change_warning == "A span changed id, this is currently not supported"

warn_1(msg) == [method |-> "warn", args |-> <<msg>>, writer |-> 0]

\* on_id_change without the debug_assert!.
on_id_change_no_assert(debug) ==
    /\ CanCall
    /\ debug_build' = debug
    /\ console' = Append(console, warn_1(id_change_warning))
    /\ calls' = Returned("on_id_change", 0, << >>, 0)
    /\ ext_before' = ExtOf(registry)
    /\ UNCHANGED <<fmt_details, PERF, perf_lookups, registry, timeline, maker, writers>>

\* on_id_change without the warning.
on_id_change_silent(debug) ==
    /\ CanCall
    /\ debug_build' = debug
    /\ calls' = IF debug = "yes" THEN Panicked("on_id_change", 0)
                ELSE Returned("on_id_change", 0, << >>, 0)
    /\ ext_before' = ExtOf(registry)
    /\ UNCHANGED <<fmt_details, PERF, perf_lookups, registry, timeline, console, maker,
                   writers>>

on_id_change(debug) ==
    /\ CanCall
    /\ debug_build' = debug
    /\ console' = Append(console, warn_1(id_change_warning))
    /\ calls' = IF debug = "yes" THEN Panicked("on_id_change", 0)
                ELSE Returned("on_id_change", 0, << >>, 0)
    /\ ext_before' = ExtOf(registry)
    /\ UNCHANGED <<fmt_details, PERF, perf_lookups, registry, timeline, maker, writers>>

\* cfg!(debug_assertions) as on_id_change reads it: the same in every call.
BuildAnswers == IF debug_build = "unread" THEN {"yes", "no"} ELSE {debug_build}

\* The span ids callbacks are delivered for: those of the live spans and, for
\* an id that does not resolve, the lowest id no live span holds.
CallbackIds == {i \in SpanIds : registry[i].live} \cup (IF FreeIds = {} THEN {} ELSE {NextId})

\* The names a new span may have.  Names only matter by being equal or not, so
\* the first span of a run is always "req".
NameChoices == IF FreeIds = SpanIds THEN {"req"} ELSE SpanNames

\* The host's answer to the measure of an exit whose mark succeeded.
ExitMeasureAnswers(id, okMark) ==
    IF okMark /\ registry[id].live
    THEN MeasureAnswers(Append(timeline,
                               mark(span_exit_name(id, registry[id].name), TRUE, 0)),
                        span_enter_name(id, registry[id].name),
                        span_exit_name(id, registry[id].name),
                        MarkAnswers)
    ELSE {FALSE}

Next ==
    \/ \E name \in NameChoices, attrs \in AttrSets :
          \E errAt \in ErrAtChoices(attrs) : on_new_span(name, attrs, errAt)
    \/ \E values \in RecordSets :
          \E errAt \in ErrAtChoices(values), id \in CallbackIds, perf \in PerformanceAnswers,
             ok \in MarkAnswers :
             on_record(id, values, errAt, perf, ok)
    \/ \E id \in CallbackIds, perf \in PerformanceAnswers, ok \in MarkAnswers :
          on_enter(id, perf, ok)
    \/ \E id \in CallbackIds, perf \in PerformanceAnswers, okMark \in MarkAnswers :
          \E okMeasure \in ExitMeasureAnswers(id, okMark) :
             on_exit(id, perf, okMark, okMeasure)
    \/ \E debug \in BuildAnswers : on_id_change(debug)

Spec == Init /\ [][Next]_vars

----------------------------------------------------------------------------
(* console_writer.rs: levels, the per-level log implementations and the    *)
(* two styles                                                              *)

\* The associated constants of tracing_core::Level.
Levels == {"TRACE", "DEBUG", "INFO", "WARN", "ERROR"}

msg_style_inherit == "background: inherit; color: inherit;"

\* make_log_impl!(..) and LogLevelFallback: the console method of log_simple
\* (console::<method>_1) and of log_pretty (console::<method>_4, _5), with
\* the format string and the label style of log_pretty.
LogImpls == {"LogLevelTrace", "LogLevelDebug", "LogLevelInfo", "LogLevelWarn",
             "LogLevelError", "LogLevelFallback"}

LogImpl(L) ==
    CASE L = "LogLevelTrace" ->
           [simple |-> "debug", pretty |-> "debug", fmt |-> "%cTRACE%c %s",
            label_style |-> "color: white; font-weight: bold; padding: 0 3px; background: #75507B;"]
      [] L = "LogLevelDebug" ->
           [simple |-> "debug", pretty |-> "debug", fmt |-> "%cDEBUG%c %s",
            label_style |-> "color: white; font-weight: bold; padding: 0 3px; background: #3465A4;"]
      [] L = "LogLevelInfo" ->
           [simple |-> "info", pretty |-> "info", fmt |-> "%cINFO%c %s",
            label_style |-> "color: white; font-weight: bold; padding: 0 3px; background: #4E9A06;"]
      [] L = "LogLevelWarn" ->
           [simple |-> "warn", pretty |-> "warn", fmt |-> "%cWARN%c %s",
            label_style |-> "color: white; font-weight: bold; padding: 0 3px; background: #C4A000;"]
      [] L = "LogLevelError" ->
           [simple |-> "error", pretty |-> "error", fmt |-> "%cERROR%c %s",
            label_style |-> "color: white; font-weight: bold; padding: 0 3px; background: #CC0000;"]
      [] L = "LogLevelFallback" ->
           [simple |-> "log", pretty |-> "log", fmt |-> "%c%s%c %s", label_style |-> ""]

\* A console call: the method and its arguments; `writer` is the writer whose
\* drop made it (0: not a writer's call).
log_simple(L, level, msg, w) ==
    [method |-> LogImpl(L).simple, args |-> <<msg>>, writer |-> w]

log_pretty(L, level, msg, w) ==
    IF L = "LogLevelFallback"
    THEN [method |-> LogImpl(L).pretty,
          args |-> <<LogImpl(L).fmt, "", level, "", msg>>, writer |-> w]
    ELSE [method |-> LogImpl(L).pretty,
          args |-> <<LogImpl(L).fmt, LogImpl(L).label_style, msg_style_inherit, msg>>,
          writer |-> w]

\* A LogDispatcher, fn(Level, &str): which function of which LogImpl it is.
SimpleStyle_get_dispatch(L) == [impl |-> L, style |-> "simple"]
PrettyStyle_get_dispatch(L) == [impl |-> L, style |-> "pretty"]

get_dispatch(style, L) ==
    IF style = "SimpleStyle" THEN SimpleStyle_get_dispatch(L)
    ELSE PrettyStyle_get_dispatch(L)

\* (self.log)(self.level, message)
dispatch(log, level, msg, w) ==
    IF log.style = "simple" THEN log_simple(log.impl, level, msg, w)
    ELSE log_pretty(log.impl, level, msg, w)

\* select_dispatcher with the branches of WARN and ERROR exchanged.
select_dispatcher_swapped(style, level) ==
    IF level = "TRACE" THEN get_dispatch(style, "LogLevelTrace")
    ELSE IF level = "DEBUG" THEN get_dispatch(style, "LogLevelDebug")
    ELSE IF level = "INFO" THEN get_dispatch(style, "LogLevelInfo")
    ELSE IF level = "WARN" THEN get_dispatch(style, "LogLevelError")
    ELSE IF level = "ERROR" THEN get_dispatch(style, "LogLevelWarn")
    ELSE get_dispatch(style, "LogLevelFallback")

select_dispatcher(style, level) ==
    IF level = "TRACE" THEN get_dispatch(style, "LogLevelTrace")
    ELSE IF level = "DEBUG" THEN get_dispatch(style, "LogLevelDebug")
    ELSE IF level = "INFO" THEN get_dispatch(style, "LogLevelInfo")
    ELSE IF level = "WARN" THEN get_dispatch(style, "LogLevelWarn")
    ELSE IF level = "ERROR" THEN get_dispatch(style, "LogLevelError")
    ELSE get_dispatch(style, "LogLevelFallback")

----------------------------------------------------------------------------
(* String::from_utf8_lossy: the buffer's bytes as Unicode scalar values,   *)
(* every maximal invalid sequence replaced by U+FFFD.                      *)

REPLACEMENT_CHARACTER == 65533

\* safe_get: the byte at i, or 0 past the end.
safe_get(bytes, i) == IF i <= Len(bytes) THEN bytes[i] ELSE 0

is_cont(b) == b >= 128 /\ b <= 191

utf8_char_width(b) ==
    IF b < 128 THEN 1
    ELSE IF b >= 194 /\ b <= 223 THEN 2
    ELSE IF b >= 224 /\ b <= 239 THEN 3
    ELSE IF b >= 240 /\ b <= 244 THEN 4
    ELSE 0

\* The second byte a three- or four-byte sequence starting with b admits.
second_ok(b, c) ==
    CASE b = 224 -> c >= 160 /\ c <= 191
      [] b >= 225 /\ b <= 236 -> is_cont(c)
      [] b = 237 -> c >= 128 /\ c <= 159
      [] b >= 238 /\ b <= 239 -> is_cont(c)
      [] b = 240 -> c >= 144 /\ c <= 191
      [] b >= 241 /\ b <= 243 -> is_cont(c)
      [] b = 244 -> c >= 128 /\ c <= 143
      [] OTHER -> FALSE

\* The sequence starting at i: [len: the bytes it takes, ch: its scalar
\* value, or U+FFFD for an invalid sequence].
next_chunk(bytes, i) ==
    LET b == bytes[i]
        b2 == safe_get(bytes, i + 1)
        b3 == safe_get(bytes, i + 2)
        b4 == safe_get(bytes, i + 3)
        w == utf8_char_width(b)
        bad(n) == [len |-> n, ch |-> REPLACEMENT_CHARACTER]
    IN  CASE w = 1 -> [len |-> 1, ch |-> b]
          [] w = 2 -> IF is_cont(b2)
                      THEN [len |-> 2, ch |-> (b % 32) * 64 + (b2 % 64)]
                      ELSE bad(1)
          [] w = 3 -> IF ~second_ok(b, b2) THEN bad(1)
                      ELSE IF ~is_cont(b3) THEN bad(2)
                      ELSE [len |-> 3,
                            ch |-> (b % 16) * 4096 + (b2 % 64) * 64 + (b3 % 64)]
          [] w = 4 -> IF ~second_ok(b, b2) THEN bad(1)
                      ELSE IF ~is_cont(b3) THEN bad(2)
                      ELSE IF ~is_cont(b4) THEN bad(3)
                      ELSE [len |-> 4,
                            ch |-> (b % 8) * 262144 + (b2 % 64) * 4096
                                   + (b3 % 64) * 64 + (b4 % 64)]
          [] OTHER -> bad(1)

RECURSIVE decode_from(_, _)
decode_from(bytes, i) ==
    IF i > Len(bytes) THEN << >>
    ELSE LET c == next_chunk(bytes, i)
         IN  <<c.ch>> \o decode_from(bytes, i + c.len)

from_utf8_lossy(bytes) == decode_from(bytes, 1)

----------------------------------------------------------------------------
(* MakeConsoleWriter, MakeWebConsoleWriter and ConsoleWriter *)

\* The makers: MakeConsoleWriter, MakeWebConsoleWriter::new() and
\* MakeWebConsoleWriter::new().with_pretty_level().
MakeConsoleWriter == [type |-> "MakeConsoleWriter", use_pretty_label |-> FALSE]
MakeWebConsoleWriter_new == [type |-> "MakeWebConsoleWriter", use_pretty_label |-> FALSE]
with_pretty_level(self) == [self EXCEPT !.use_pretty_label = TRUE]
Makers == {MakeConsoleWriter, MakeWebConsoleWriter_new,
           with_pretty_level(MakeWebConsoleWriter_new)}

\* An upgrade to the maker with the pretty label.
upgrade_pretty(self) == [type |-> "MakeWebConsoleWriter", use_pretty_label |-> TRUE]

\* MakeConsoleWriter::upgrade: the maker the old one delegates to.
upgrade(self) == [type |-> "MakeWebConsoleWriter", use_pretty_label |-> FALSE]

\* The byte slices handed to write: "ab" and the two bytes of U+00E9, one at
\* a time (each alone is not UTF-8).
WriteBufs == {<<97, 98>>, <<195>>, <<169>>}

ConsoleWriter(buffer, level, log) == [buffer |-> buffer, level |-> level, log |-> log]

MakeWebConsoleWriter_make_writer(self) ==
    ConsoleWriter(<< >>, "TRACE",
                  IF self.use_pretty_label
                  THEN get_dispatch("PrettyStyle", "LogLevelFallback")
                  ELSE get_dispatch("SimpleStyle", "LogLevelFallback"))

MakeWebConsoleWriter_make_writer_for(self, meta_level) ==
    LET level == meta_level
        log_fn == IF self.use_pretty_label
                  THEN select_dispatcher("PrettyStyle", level)
                  ELSE select_dispatcher("SimpleStyle", level)
    IN  ConsoleWriter(<< >>, level, log_fn)

MakeConsoleWriter_make_writer(self) ==
    MakeWebConsoleWriter_make_writer(upgrade(self))

MakeConsoleWriter_make_writer_for(self, meta_level) ==
    MakeWebConsoleWriter_make_writer_for(upgrade(self), meta_level)

\* A writer of the model: the ConsoleWriter `w`, with how it was made
\* (maker, meta: the record's level or "none"), the slices written to it,
\* and where it is in its life: "open", "flushed" (flush was the last call
\* on it) or "dropped".
Made(w, by, meta) ==
    [w |-> w, maker |-> by, meta |-> meta, written |-> << >>,
     state |-> "open"]

TotalWrites == LET RECURSIVE Sum(_)
                   Sum(i) == IF i = 0 THEN 0 ELSE Len(writers[i].written) + Sum(i - 1)
               IN  Sum(Len(writers))

\* The subscriber makes a writer for one record, writes the formatted record
\* to it and drops it before it makes the next.
NoneLive == \A i \in 1 .. Len(writers) : writers[i].state = "dropped"

make_writer ==
    /\ Len(writers) < MaxWriters
    /\ NoneLive
    /\ writers' = Append(writers,
                         Made(IF maker.type = "MakeConsoleWriter"
                              THEN MakeConsoleWriter_make_writer(maker)
                              ELSE MakeWebConsoleWriter_make_writer(maker),
                              maker, "none"))
    /\ UNCHANGED <<fmt_details, debug_build, PERF, perf_lookups, registry, timeline,
                   calls, ext_before, console, maker>>

make_writer_for(meta_level) ==
    /\ Len(writers) < MaxWriters
    /\ NoneLive
    /\ writers' = Append(writers,
                         Made(IF maker.type = "MakeConsoleWriter"
                              THEN MakeConsoleWriter_make_writer_for(maker, meta_level)
                              ELSE MakeWebConsoleWriter_make_writer_for(maker, meta_level),
                              maker, meta_level))
    /\ UNCHANGED <<fmt_details, debug_build, PERF, perf_lookups, registry, timeline,
                   calls, ext_before, console, maker>>

\* A write that keeps only the last slice.
Vec_write_overwrite(buffer, buf) == buf

\* Vec<u8>::write appends all of buf.
Vec_write(buffer, buf) == buffer \o buf

write(i, buf) ==
    /\ i \in 1 .. Len(writers)
    /\ writers[i].state # "dropped"
    /\ TotalWrites < MaxWrites
    /\ writers' = [writers EXCEPT ![i].w.buffer = Vec_write(@, buf),
                                  ![i].written = Append(@, buf),
                                  ![i].state = "open"]
    /\ UNCHANGED <<fmt_details, debug_build, PERF, perf_lookups, registry, timeline,
                   calls, ext_before, console, maker>>

flush(i) ==
    /\ i \in 1 .. Len(writers)
    /\ writers[i].state = "open"
    /\ writers' = [writers EXCEPT ![i].state = "flushed"]
    /\ UNCHANGED <<fmt_details, debug_build, PERF, perf_lookups, registry, timeline,
                   calls, ext_before, console, maker>>

drop(i) ==
    /\ i \in 1 .. Len(writers)
    /\ writers[i].state # "dropped"
    /\ LET self == writers[i].w
           message == from_utf8_lossy(self.buffer)
       IN  console' = Append(console, dispatch(self.log, self.level, message, i))
    /\ writers' = [writers EXCEPT ![i].state = "dropped"]
    /\ UNCHANGED <<fmt_details, debug_build, PERF, perf_lookups, registry, timeline,
                   calls, ext_before, maker>>

WriterNext ==
    \/ make_writer
    \/ \E level \in Levels : make_writer_for(level)
    \/ \E i \in 1 .. MaxWriters, buf \in WriteBufs : write(i, buf)
    \/ \E i \in 1 .. MaxWriters : flush(i)
    \/ \E i \in 1 .. MaxWriters : drop(i)

\* The console writers alone, beside a layer that receives no callback.
WriterInit ==
    /\ fmt_details = "Unit"
    /\ debug_build = "unread"
    /\ PERF = "uninit"
    /\ perf_lookups = 0
    /\ registry = [i \in SpanIds |-> NoSpan]
    /\ timeline = << >>
    /\ calls = << >>
    /\ ext_before = [i \in SpanIds |-> None]
    /\ console = << >>
    /\ maker \in Makers
    /\ writers = << >>

WriterSpec == WriterInit /\ [][WriterNext]_vars

----------------------------------------------------------------------------
(* FormatSpan alone: add_details and record_values of the layer's formatter *)
(* applied, in any order, to the extensions of one span.  The extensions   *)
(* may hold FormattedFields<N> before the layer's first call: a fmt layer  *)
(* with the same N stores its fields under the same type.                  *)

Stores == {None, Some(""), Some("a=1")}

FormatSpanInit ==
    /\ fmt_details = "FromFields"
    /\ debug_build = "unread"
    /\ PERF = "uninit"
    /\ perf_lookups = 0
    /\ \E ext \in Stores :
          registry = [i \in SpanIds |->
                         IF i = 1 THEN [live |-> TRUE, name |-> "req", ext |-> ext, born |-> 0]
                         ELSE NoSpan]
    /\ timeline = << >>
    /\ calls = << >>
    /\ ext_before = [i \in SpanIds |-> None]
    /\ console = << >>
    /\ maker = [type |-> "MakeConsoleWriter", use_pretty_label |-> FALSE]
    /\ writers = << >>

FormatSpan_add_details(attrs, errAt) ==
    /\ Len(calls) < MaxCalls
    /\ registry' = [registry EXCEPT ![1].ext = add_details(fmt_details, @, attrs, errAt)]
    /\ calls' = Append(calls, Call("add_details", 1, attrs, errAt, TRUE))
    /\ ext_before' = ExtOf(registry)
    /\ UNCHANGED <<fmt_details, debug_build, PERF, perf_lookups, timeline, console, maker,
                   writers>>

FormatSpan_record_values(values, errAt) ==
    /\ Len(calls) < MaxCalls
    /\ registry' = [registry EXCEPT ![1].ext = record_values(fmt_details, @, values, errAt)]
    /\ calls' = Append(calls, Call("record_values", 1, values, errAt, TRUE))
    /\ ext_before' = ExtOf(registry)
    /\ UNCHANGED <<fmt_details, debug_build, PERF, perf_lookups, timeline, console, maker,
                   writers>>

FormatSpanNext ==
    \/ \E attrs \in AttrSets : \E errAt \in ErrAtChoices(attrs) :
          FormatSpan_add_details(attrs, errAt)
    \/ \E values \in RecordSets : \E errAt \in ErrAtChoices(values) :
          FormatSpan_record_values(values, errAt)

FormatSpanSpec == FormatSpanInit /\ [][FormatSpanNext]_vars

----------------------------------------------------------------------------
(* Entering and exiting alone: on_enter and on_exit delivered, in any order *)
(* and any number of times, for spans that on_new_span has already seen.   *)
(* Span 1 was made with any attributes its formatter may or may not have   *)
(* managed to format; a second span, of either name and without fields,    *)
(* may be live beside it.                                                  *)

EnterExitInit ==
    /\ fmt_details \in {"Unit", "FromFields"}
    /\ debug_build = "unread"
    /\ PERF = "uninit"
    /\ perf_lookups = 0
    /\ \E name \in SpanNames, attrs \in AttrSets, other \in {""} \cup SpanNames :
          \E errAt \in 0 .. Len(attrs) :
             registry = [i \in SpanIds |->
                            IF i = 1
                            THEN [live |-> TRUE, name |-> name,
                                  ext |-> add_details(fmt_details, None, attrs, errAt),
                                  born |-> 0]
                            ELSE IF i = 2 /\ other # ""
                            THEN [live |-> TRUE, name |-> other,
                                  ext |-> add_details(fmt_details, None, << >>, 0),
                                  born |-> 0]
                            ELSE NoSpan]
    /\ timeline = << >>
    /\ calls = << >>
    /\ ext_before = [i \in SpanIds |-> None]
    /\ console = << >>
    /\ maker = [type |-> "MakeConsoleWriter", use_pretty_label |-> FALSE]
    /\ writers = << >>

EnterExitNext ==
    \/ \E id \in CallbackIds, perf \in PerformanceAnswers, ok \in MarkAnswers :
          on_enter(id, perf, ok)
    \/ \E id \in CallbackIds, perf \in PerformanceAnswers, okMark \in MarkAnswers :
          \E okMeasure \in ExitMeasureAnswers(id, okMark) :
             on_exit(id, perf, okMark, okMeasure)

EnterExitSpec == EnterExitInit /\ [][EnterExitNext]_vars

----------------------------------------------------------------------------
(* Properties of the layer, checked under Spec *)

\* The host calls the n-th callback attempted, in order.
AttemptsOf(n) == SelectSeq(timeline, LAMBDA a : a.call = n)
CallIds == 1 .. Len(calls)
Emitting == {"on_record", "on_enter", "on_exit"}
IsPrefix(s, t) == Len(s) <= Len(t) /\ \A i \in 1 .. Len(s) : s[i] = t[i]
\* A host call without the host's answer and the callback it came from.
Shown(a) == [method |-> a.method, name |-> a.name, detail |-> a.detail,
             start |-> a.start, end |-> a.end]
\* The name "N [I]: kind" of the span callback n was delivered for.
NameOf(n, kind) ==
    registry[calls[n].id].name \o " [" \o ToString(calls[n].id) \o "]: " \o kind

(* C1: every mark or measure the layer attempts for a span named N with id I
   is named "N [I]: kind": span-record from on_record, span-enter from
   on_enter, span-exit for the mark of on_exit and span-measure for its
   measure, whose start mark is "N [I]: span-enter" and whose end mark is
   "N [I]: span-exit". *)
C1_Names ==
    \A k \in 1 .. Len(timeline) :
       LET a == timeline[k]
           n == a.call
       IN  /\ n \in CallIds
           /\ calls[n].cb \in Emitting
           /\ calls[n].cb = "on_record" =>
                 a.method = "mark" /\ a.name = NameOf(n, "span-record")
           /\ calls[n].cb = "on_enter" =>
                 a.method = "mark" /\ a.name = NameOf(n, "span-enter")
           /\ calls[n].cb = "on_exit" /\ a.method = "mark" =>
                 a.name = NameOf(n, "span-exit")
           /\ calls[n].cb = "on_exit" /\ a.method = "measure" =>
                 /\ a.name = NameOf(n, "span-measure")
                 /\ a.start = NameOf(n, "span-enter")
                 /\ a.end = NameOf(n, "span-exit")

C1_Witness ==
    /\ \E k \in 1 .. Len(timeline) :
          /\ timeline[k].method = "measure"
          /\ timeline[k].name = "req [1]: span-measure"
          /\ timeline[k].start = "req [1]: span-enter"
          /\ timeline[k].end = "req [1]: span-exit"
    /\ \E k \in 1 .. Len(timeline) : timeline[k].name = "req [1]: span-record"
    /\ \E k \in 1 .. Len(timeline) : timeline[k].name = "req [1]: span-enter"

(* C2: in every on_exit callback the first host call is the span-exit mark;
   the span-measure is attempted, after it, if and only if that mark
   succeeded; and whatever the host answers, on_exit returns. *)
C2_ExitOrder ==
    \A n \in CallIds :
       calls[n].cb = "on_exit" =>
          LET A == AttemptsOf(n)
          IN  /\ A # << >> => calls[n].returned
              /\ calls[n].returned =>
                    /\ Len(A) >= 1
                    /\ A[1].method = "mark"
                    /\ A[1].name = NameOf(n, "span-exit")
                    /\ Len(A) = IF A[1].ok THEN 2 ELSE 1
                    /\ Len(A) = 2 => A[2].method = "measure"

C2_Witness ==
    /\ \E n \in CallIds :
          /\ calls[n].cb = "on_exit" /\ calls[n].returned
          /\ Len(AttemptsOf(n)) = 1 /\ ~AttemptsOf(n)[1].ok
    /\ \E n \in CallIds :
          /\ calls[n].cb = "on_exit" /\ calls[n].returned
          /\ Len(AttemptsOf(n)) = 2 /\ ~AttemptsOf(n)[2].ok

\* The span callback n was delivered for, and its detail store now.
StoreOf(n) == registry[calls[n].id].ext
\* A formatter call that returned an error.
FmtFailed(n) == calls[n].errAt < Len(calls[n].fields)

(* C3: with FormatSpanFromFields, the detail of every mark and measure of a
   callback is the span's detail store as that callback leaves it (for
   on_record: after the new fields were merged); what the host was handed
   is never changed afterwards; and new_span("req", a=1), enter, record(b=2),
   exit on span 1 attempt the enter mark with "a=1", the record mark with
   "a=1 b=2", the exit mark with "a=1 b=2" and the measure from the enter
   mark to the exit mark with "a=1 b=2". *)
C3_LastDetail ==
    (fmt_details = "FromFields" /\ calls # << >>) =>
       \A k \in 1 .. Len(timeline) :
          timeline[k].call = Len(calls) => timeline[k].detail = StoreOf(Len(calls))

C3_Scenario ==
    (/\ fmt_details = "FromFields"
     /\ Len(calls) = 4
     /\ \A n \in CallIds : calls[n].id = 1 /\ calls[n].returned /\ ~FmtFailed(n)
     /\ registry[1].name = "req"
     /\ calls[1].cb = "on_new_span" /\ calls[1].fields = <<"a=1">>
     /\ calls[2].cb = "on_enter"
     /\ calls[3].cb = "on_record" /\ calls[3].fields = <<"b=2">>
     /\ calls[4].cb = "on_exit"
     /\ \A k \in 1 .. Len(timeline) : timeline[k].method = "mark" => timeline[k].ok)
    => /\ Len(timeline) = 4
       /\ Shown(timeline[1]) = [method |-> "mark", name |-> "req [1]: span-enter",
                                detail |-> Some("a=1"), start |-> "", end |-> ""]
       /\ Shown(timeline[2]) = [method |-> "mark", name |-> "req [1]: span-record",
                                detail |-> Some("a=1 b=2"), start |-> "", end |-> ""]
       /\ Shown(timeline[3]) = [method |-> "mark", name |-> "req [1]: span-exit",
                                detail |-> Some("a=1 b=2"), start |-> "", end |-> ""]
       /\ Shown(timeline[4]) = [method |-> "measure", name |-> "req [1]: span-measure",
                                detail |-> Some("a=1 b=2"),
                                start |-> "req [1]: span-enter",
                                end |-> "req [1]: span-exit"]

C3_WrittenOnce == IsPrefix(timeline, timeline')

C3_Details == [](C3_LastDetail /\ C3_Scenario) /\ [][C3_WrittenOnce]_vars

C3_Witness ==
    /\ fmt_details = "FromFields"
    /\ Len(timeline) = 4
    /\ timeline[1].name = "req [1]: span-enter" /\ timeline[1].detail = Some("a=1")
    /\ timeline[2].name = "req [1]: span-record" /\ timeline[2].detail = Some("a=1 b=2")
    /\ timeline[4].name = "req [1]: span-measure" /\ timeline[4].detail = Some("a=1 b=2")
    /\ timeline[4].ok

\* The callbacks delivered for span id: its on_new_span is callback `born`.
CallsOn(id) == {n \in CallIds : calls[n].id = id /\ calls[n].cb # "on_id_change"}
\* The first on_enter of span id, or 0.
FirstEnter(id) ==
    LET E == {n \in CallsOn(id) : calls[n].cb = "on_enter"}
    IN  IF E = {} THEN 0 ELSE CHOOSE n \in E : \A m \in E : n <= m
\* The on_record callbacks of span id that returned before its first on_enter.
RecordsBeforeEnter(id) ==
    {n \in CallsOn(id) : /\ calls[n].cb = "on_record" /\ calls[n].returned
                         /\ (FirstEnter(id) = 0 \/ n < FirstEnter(id))}
\* The formatter's merge of field sets, in the order of the sequence.
RECURSIVE MergeInOrder(_, _)
MergeInOrder(sets, n) ==
    IF n = 1 THEN format_fields("", sets[1], Len(sets[1])).fields
    ELSE add_fields(MergeInOrder(sets, n - 1), sets[n], Len(sets[n])).fields
\* The field sets span id received up to callback e, creation first.
RECURSIVE FieldSetsUpTo(_, _)
FieldSetsUpTo(id, e) ==
    IF e = 0 THEN << >>
    ELSE IF calls[e].id = id /\ calls[e].cb \in {"on_new_span", "on_record"}
         THEN Append(FieldSetsUpTo(id, e - 1), calls[e].fields)
         ELSE FieldSetsUpTo(id, e - 1)

(* C4: the k on_record callbacks that a span receives (and that return)
   before its first on_enter attempt exactly k span-record marks, one each,
   whether or not the host failed earlier ones; and, with
   FormatSpanFromFields and a formatter that returned no error for that
   span, the detail of the first span-enter mark is the formatter's merge,
   in arrival order, of the creation fields followed by the k recorded
   field sets. *)
C4_RecordsBeforeEnter ==
    \A id \in SpanIds :
       registry[id].live =>
          LET R == RecordsBeforeEnter(id)
              e == FirstEnter(id)
          IN  /\ \A n \in R :
                    /\ Len(AttemptsOf(n)) = 1
                    /\ AttemptsOf(n)[1].name = NameOf(n, "span-record")
              /\ Cardinality({k \in 1 .. Len(timeline) :
                                 /\ timeline[k].call \in R
                                 /\ timeline[k].method = "mark"}) = Cardinality(R)
              /\ (/\ e # 0 /\ calls[e].returned
                  /\ fmt_details = "FromFields"
                  /\ \A n \in CallsOn(id) : n < e => ~FmtFailed(n))
                 => LET sets == FieldSetsUpTo(id, e)
                    IN  /\ Len(sets) = Cardinality(R) + 1
                        /\ AttemptsOf(e)[1].detail = Some(MergeInOrder(sets, Len(sets)))

C4_Witness ==
    \E id \in SpanIds :
       /\ fmt_details = "FromFields"
       /\ Cardinality(RecordsBeforeEnter(id)) = 2
       /\ FirstEnter(id) # 0
       /\ AttemptsOf(FirstEnter(id))[1].detail = Some("a=1 b=2 ")
       /\ \E n \in RecordsBeforeEnter(id) : ~AttemptsOf(n)[1].ok

(* C5: a host call that fails is discarded and never retried: a callback
   that attempted a host call returns; on_record and on_enter attempt
   exactly one mark, on_exit one mark and at most one measure; and the
   detail stores are what they would be had the host succeeded: on_enter and
   on_exit leave every store as it was, on_record leaves the stores of the
   other spans as they were and its own span's store as record_values made
   it. *)
C5_NoRetry ==
    /\ \A n \in CallIds :
          LET A == AttemptsOf(n)
          IN  /\ A # << >> => calls[n].returned
              /\ (calls[n].cb \in {"on_record", "on_enter"} /\ calls[n].returned) =>
                    Len(A) = 1 /\ A[1].method = "mark"
              /\ (calls[n].cb = "on_exit" /\ calls[n].returned) =>
                    /\ Len(A) \in {1, 2} /\ A[1].method = "mark"
                    /\ Len(A) = 2 => A[2].method = "measure"
              /\ calls[n].cb \notin Emitting => A = << >>
    /\ calls # << >> =>
          LET n == Len(calls)
          IN  /\ calls[n].cb \in {"on_enter", "on_exit"} => ExtOf(registry) = ext_before
              /\ (calls[n].cb = "on_record" /\ calls[n].returned) =>
                    /\ \A i \in SpanIds \ {calls[n].id} : registry[i].ext = ext_before[i]
                    /\ StoreOf(n) = record_values(fmt_details, ext_before[calls[n].id],
                                                  calls[n].fields, calls[n].errAt)

C5_Witness ==
    \E n \in CallIds, m \in CallIds :
       /\ n < m /\ calls[n].id = calls[m].id
       /\ calls[n].cb = "on_record" /\ calls[n].returned
       /\ ~AttemptsOf(n)[1].ok
       /\ calls[m].cb = "on_exit" /\ calls[m].returned
       /\ Len(AttemptsOf(m)) = 2
       /\ AttemptsOf(m)[1].detail = Some("a=1 b=2")

\* Why callback n cannot return: its span id does not resolve or the host has
\* no Performance object (on_record, on_enter, on_exit), or the build is a
\* debug build (on_id_change).
Fatal(n) ==
    CASE calls[n].cb = "on_new_span" -> FALSE
      [] calls[n].cb = "on_id_change" -> debug_build = "yes"
      [] OTHER -> ~registry[calls[n].id].live \/ PERF # "ready"

(* C6, as claimed: every lifecycle callback returns normally in every
   reachable situation. *)
C6_AllReturn == \A n \in CallIds : calls[n].returned

(* C6, amended: a callback fails to return exactly when on_record, on_enter or
   on_exit is delivered for a span id that does not resolve or finds no host
   Performance object at the first use of PERF, or when on_id_change is
   delivered in a debug build; in every other situation, a failing host mark
   or measure included, the callback returns. *)
C6_ReturnUnlessFatal ==
    \A n \in CallIds : calls[n].returned <=> ~Fatal(n)

C6_Witness ==
    /\ \E n \in CallIds : calls[n].cb = "on_id_change" /\ calls[n].returned
    /\ \E n \in CallIds : /\ calls[n].cb = "on_exit" /\ calls[n].returned
                          /\ ~AttemptsOf(n)[1].ok
    /\ \E n \in CallIds : calls[n].cb = "on_enter" /\ ~calls[n].returned
                          /\ ~registry[calls[n].id].live

(* C7: with the () formatter of performance_layer(), after any callbacks,
   find_details returns None for every span, no span's detail store holds a
   string, and every mark and measure is the plain call, without detail. *)
C7_UnitNoDetails ==
    fmt_details = "Unit" =>
       /\ \A i \in SpanIds : /\ ~registry[i].ext.some
                             /\ ~find_details(fmt_details, registry[i].ext).some
       /\ \A k \in 1 .. Len(timeline) : ~timeline[k].detail.some

C7_Witness ==
    /\ fmt_details = "Unit"
    /\ \E n \in CallIds : calls[n].cb = "on_new_span" /\ calls[n].fields = <<"a=1">>
    /\ \E n \in CallIds : calls[n].cb = "on_record" /\ calls[n].fields = <<"b=2">>
                          /\ calls[n].returned
    /\ \E k \in 1 .. Len(timeline) : timeline[k].method = "measure" /\ timeline[k].ok

IdChanges == {n \in CallIds : calls[n].cb = "on_id_change"}

(* C8: every on_id_change makes exactly one console call, the warning,
   attempts no mark and no measure and leaves every detail store as it was;
   it returns in a release build and, in a debug build, fails its assertion
   after the warning. *)
C8_IdChange ==
    /\ Len(console) = Cardinality(IdChanges)
    /\ \A c \in 1 .. Len(console) :
          console[c] = [method |-> "warn", args |-> <<id_change_warning>>, writer |-> 0]
    /\ \A n \in IdChanges :
          /\ AttemptsOf(n) = << >>
          /\ calls[n].returned <=> debug_build = "no"
          /\ n = Len(calls) => ExtOf(registry) = ext_before /\ Len(console) >= 1

C8_Witness ==
    /\ debug_build = "yes"
    /\ calls # << >>
    /\ Last(calls).cb = "on_id_change" /\ ~Last(calls).returned
    /\ Len(console) = 1
    /\ timeline # << >>
    /\ \E i \in SpanIds : registry[i].ext = Some("a=1")

----------------------------------------------------------------------------
(* Properties of the console writers, checked under WriterSpec *)

WriterIds == 1 .. Len(writers)
\* The console calls made by writer i.
WriterCalls(i) == {c \in 1 .. Len(console) : console[c].writer = i}
\* The message of a console call: its last argument.
MessageOf(c) == Last(console[c].args)
\* All the bytes handed to write, in order.
RECURSIVE Concat(_, _)
Concat(bufs, n) == IF n = 0 THEN << >> ELSE Concat(bufs, n - 1) \o bufs[n]
WrittenBytes(i) == Concat(writers[i].written, Len(writers[i].written))

(* C9: a ConsoleWriter makes no console call while it is written to and
   flushed, and exactly one when it is dropped; the message of that call is
   the lossy UTF-8 decoding of all the bytes written, in order: "ab" twice
   gives "abab", the two bytes of U+00E9 written one at a time give U+00E9
   and in the other order two U+FFFD, and a byte that is not UTF-8 gives
   U+FFFD where it was written, after "ab" or before it. *)
C9_OneCallAtDrop ==
    /\ \A c \in 1 .. Len(console) : console[c].writer \in WriterIds
    /\ \A i \in WriterIds :
          LET wr == writers[i]
          IN  /\ Cardinality(WriterCalls(i)) = IF wr.state = "dropped" THEN 1 ELSE 0
              /\ \A c \in WriterCalls(i) :
                    /\ MessageOf(c) = from_utf8_lossy(WrittenBytes(i))
                    /\ wr.written = << >> => MessageOf(c) = << >>
                    /\ wr.written = << <<97, 98>>, <<97, 98>> >> =>
                          MessageOf(c) = <<97, 98, 97, 98>>
                    /\ wr.written = << <<195>>, <<97, 98>> >> =>
                          MessageOf(c) = <<65533, 97, 98>>
                    /\ wr.written = << <<195>>, <<169>> >> => MessageOf(c) = <<233>>
                    /\ wr.written = << <<169>>, <<195>> >> =>
                          MessageOf(c) = <<65533, 65533>>
                    /\ wr.written = << <<97, 98>>, <<195>> >> =>
                          MessageOf(c) = <<97, 98, 65533>>
                    /\ wr.written = << <<169>> >> => MessageOf(c) = <<65533>>

C9_Witness ==
    /\ \E i \in WriterIds :
          /\ writers[i].written = << <<195>>, <<97, 98>> >>
          /\ writers[i].state = "dropped"
          /\ \E c \in WriterCalls(i) : MessageOf(c) = <<65533, 97, 98>>
    /\ \E i \in WriterIds :
          /\ writers[i].state = "flushed"
          /\ WriterCalls(i) = {}

\* The table of the documentation: the console method of each level.
LevelMethod(level) ==
    CASE level = "TRACE" -> "debug"
      [] level = "DEBUG" -> "debug"
      [] level = "INFO" -> "info"
      [] level = "WARN" -> "warn"
      [] level = "ERROR" -> "error"
      [] OTHER -> "log"
\* The console method a dispatcher calls.
MethodOf(log) == dispatch(log, "", << >>, 0).method
\* Values that are none of the five level constants.
OtherLevels == {"OFF", "CUSTOM"}

(* C10: a writer made by make_writer_for for a record of level L, by a
   maker of either style, holds the dispatcher of the console method the
   table gives for L (debug, debug, info, warn, error for TRACE, DEBUG, INFO,
   WARN, ERROR) in the maker's style, and its drop calls that method; every
   writer gets the method of its own record's level; select_dispatcher gives
   the generic log method, in both styles, for a level that is none of the
   five. *)
C10_LevelTable ==
    /\ \A i \in WriterIds :
          writers[i].meta # "none" =>
             /\ writers[i].w.level = writers[i].meta
             /\ MethodOf(writers[i].w.log) = LevelMethod(writers[i].meta)
             /\ writers[i].w.log.style =
                   IF writers[i].maker.use_pretty_label THEN "pretty" ELSE "simple"
             /\ \A c \in WriterCalls(i) : console[c].method = LevelMethod(writers[i].meta)
    /\ \A style \in {"SimpleStyle", "PrettyStyle"}, level \in OtherLevels :
          MethodOf(select_dispatcher(style, level)) = "log"

C10_Witness ==
    /\ maker.use_pretty_label
    /\ Len(writers) = 2 /\ Len(console) = 2
    /\ writers[1].meta = "WARN" /\ writers[2].meta = "ERROR"
    /\ \E c \in WriterCalls(1) : console[c].method = "warn" /\ Len(console[c].args) = 4
    /\ \E c \in WriterCalls(2) : console[c].method = "error"

\* The style a maker gives its writers.
StyleOf(by) == IF by.use_pretty_label THEN "PrettyStyle" ELSE "SimpleStyle"

(* C11: every ConsoleWriter, made by make_writer or by make_writer_for, holds
   the dispatcher that the level table selects, in its maker's style, for the
   level stored in the writer, and the console call of its drop is the call
   of that dispatcher: its method and, in the pretty style, its label. *)
C11_StoredLevelTable ==
    \A i \in WriterIds :
       LET wr == writers[i]
           selected == select_dispatcher(StyleOf(wr.maker), wr.w.level)
       IN  /\ wr.w.log = selected
           /\ MethodOf(wr.w.log) = LevelMethod(wr.w.level)
           /\ \A c \in WriterCalls(i) :
                 console[c] = dispatch(selected, wr.w.level, MessageOf(c), i)

----------------------------------------------------------------------------
(* Further properties of the layer, checked under Spec *)

(* C12: when the wrapped formatter returns an error during add_details
   (on_new_span) or record_values (on_record), the span's detail store is
   exactly what it was before the callback, absent or a string, the callback
   returns, and on_record still attempts its one span-record mark. *)
C12_FailureLeavesStore ==
    (fmt_details = "FromFields" /\ calls # << >>) =>
       LET n == Len(calls)
       IN  (calls[n].cb \in {"on_new_span", "on_record"} /\ FmtFailed(n)) =>
              /\ StoreOf(n) = ext_before[calls[n].id]
              /\ calls[n].returned
              /\ calls[n].cb = "on_record" =>
                    /\ Len(AttemptsOf(n)) = 1
                    /\ AttemptsOf(n)[1].name = NameOf(n, "span-record")

\* s is a prefix of the string t.
StrIsPrefix(s, t) == Len(s) <= Len(t) /\ SubSeq(t, 1, Len(s)) = s

(* C13: in every step, whatever the callback, a span's detail store that
   holds a string still holds one afterwards, and the string it held is a
   prefix of the string it holds: on_record extends the string and never
   replaces or shortens it, and the store never returns to absent. *)
C13_Extends ==
    \A id \in SpanIds :
       registry[id].ext.some =>
          /\ registry'[id].ext.some
          /\ StrIsPrefix(registry[id].ext.str, registry'[id].ext.str)

C13_Monotone == [][C13_Extends]_vars

C13_Witness ==
    /\ calls # << >>
    /\ Last(calls).cb = "on_record" /\ Last(calls).returned
    /\ ext_before[Last(calls).id] = Some("a=1")
    /\ StoreOf(Len(calls)) = Some("a=1 b=2")
    /\ \E n \in CallIds : n < Len(calls) /\ calls[n].cb = "on_enter"
                          /\ calls[n].id = Last(calls).id

\* The callbacks that reached PERF.with: on_record, on_enter and on_exit of a
\* span the registry resolved.
PerfUses == {n \in CallIds : calls[n].cb \in Emitting /\ registry[calls[n].id].live}

(* C14: Global::performance() is evaluated at most once in a run, by the
   first on_record, on_enter or on_exit that reaches PERF.with and by no
   on_new_span or on_id_change; every later mark and measure reuses the
   object; and when the host has no Performance object at that first use
   the callback does not return, attempts no host call and nothing follows
   it. *)
C14_PerfOnce ==
    /\ perf_lookups = IF PerfUses = {} THEN 0 ELSE 1
    /\ PERF = "ready" <=> \E n \in PerfUses : calls[n].returned
    /\ timeline # << >> => PERF = "ready"
    /\ \A n \in CallIds :
          calls[n].cb \in {"on_new_span", "on_id_change"} => AttemptsOf(n) = << >>
    /\ (PerfUses # {} /\ PERF = "uninit") =>
          /\ PerfUses = {Len(calls)}
          /\ ~Last(calls).returned
          /\ timeline = << >>
    /\ PERF = "ready" => \A n \in PerfUses : calls[n].returned /\ AttemptsOf(n) # << >>

C14_Witness ==
    /\ perf_lookups = 1 /\ PERF = "ready"
    /\ calls[1].cb = "on_new_span"
    /\ \E n \in CallIds : calls[n].cb = "on_id_change"
    /\ Cardinality(PerfUses) = 2
    /\ Len(timeline) >= 2

\* The event kinds of the four name helpers.
EventKinds == {"span-enter", "span-exit", "span-record", "span-measure"}
\* The span and the event kind a host call was made for, from the callback
\* that made it.
KeyOf(a) ==
    <<calls[a.call].id,
      CASE calls[a.call].cb = "on_record" -> "span-record"
        [] calls[a.call].cb = "on_enter" -> "span-enter"
        [] calls[a.call].cb = "on_exit" /\ a.method = "mark" -> "span-exit"
        [] OTHER -> "span-measure">>
\* Span ids and span names chosen to collide if the format allowed it: an id
\* that ends like another, names that contain the text of another name.
CollidingIds == {1, 2, 11, 12}
CollidingNames == {"", "req", "req [1]", "req [1]: span-enter", "req [1]: span-enter [1]",
                   "req [1", "1"}

(* C15: two host calls carry the same name exactly when they were made for
   the same span id and the same event kind, also for two live spans of the
   same name, and a measure names the enter and exit marks of its own span;
   and template_name gives different names for different (id, kind) pairs
   whatever the span names are, names that imitate the format included. *)
C15_NoCollision ==
    /\ \A k \in 1 .. Len(timeline), l \in 1 .. Len(timeline) :
          /\ timeline[k].name = timeline[l].name <=> KeyOf(timeline[k]) = KeyOf(timeline[l])
          /\ timeline[k].method = "measure" =>
                /\ timeline[k].start = timeline[l].name <=>
                      KeyOf(timeline[l]) = <<KeyOf(timeline[k])[1], "span-enter">>
                /\ timeline[k].end = timeline[l].name <=>
                      KeyOf(timeline[l]) = <<KeyOf(timeline[k])[1], "span-exit">>
    /\ calls = << >> =>
          \A i \in CollidingIds, j \in CollidingIds :
             \A n \in CollidingNames, m \in CollidingNames :
                \A e \in EventKinds, f \in EventKinds :
                   (i # j \/ e # f) => template_name(i, n, e) # template_name(j, m, f)

C15_Witness ==
    /\ registry[1].live /\ registry[2].live
    /\ registry[1].name = registry[2].name
    /\ \E k \in 1 .. Len(timeline) : timeline[k].name = "req [1]: span-enter"
    /\ \E k \in 1 .. Len(timeline) : timeline[k].name = "req [2]: span-enter"

\* The host calls made before the k-th.
Before(k) == SubSeq(timeline, 1, k - 1)
\* The on_enter callbacks of the span of callback n that returned before n.
EntersBefore(n) ==
    {m \in CallIds : /\ m < n /\ calls[m].cb = "on_enter"
                     /\ calls[m].id = calls[n].id /\ calls[m].returned}

(* C16, as claimed: whenever an on_exit that follows an on_enter of its span
   attempts a measure, the host holds both marks the measure names: the
   span-exit mark and the span-enter mark. *)
C16_BothMarksExist ==
    \A k \in 1 .. Len(timeline) :
       (timeline[k].method = "measure" /\ EntersBefore(timeline[k].call) # {}) =>
          /\ HostHasMark(Before(k), timeline[k].end)
          /\ HostHasMark(Before(k), timeline[k].start)

(* C16, amended: whenever on_exit attempts a measure, the span-exit mark it
   names is the host call just before it, made by the same callback, and it
   succeeded; the span-enter mark it names is held by the host exactly when
   the mark of an earlier on_enter of that span succeeded, which on_exit
   does not look at: when that mark failed the measure is attempted all the
   same and the host fails it. *)
C16_ExitMarkExists ==
    \A k \in 1 .. Len(timeline) :
       timeline[k].method = "measure" =>
          /\ k > 1
          /\ timeline[k - 1].call = timeline[k].call
          /\ timeline[k - 1].method = "mark" /\ timeline[k - 1].ok
          /\ timeline[k - 1].name = timeline[k].end
          /\ HostHasMark(Before(k), timeline[k].start) <=>
                \E m \in EntersBefore(timeline[k].call) : AttemptsOf(m)[1].ok
          /\ ~HostHasMark(Before(k), timeline[k].start) => ~timeline[k].ok

C16_Witness ==
    \E k \in 1 .. Len(timeline) :
       /\ timeline[k].method = "measure"
       /\ EntersBefore(timeline[k].call) # {}
       /\ ~HostHasMark(Before(k), timeline[k].start)
       /\ timeline[k - 1].ok

(* C17: every mark and measure of a callback is the detailed call exactly
   when find_details returns a string for the span as the callback finds it
   at the call, and then carries that string, the empty string included;
   the exit mark and the measure of one on_exit are both detailed or both
   plain and carry the same string. *)
C17_DetailedIffFound ==
    /\ calls # << >> =>
          \A k \in 1 .. Len(timeline) :
             timeline[k].call = Len(calls) =>
                timeline[k].detail = find_details(fmt_details, StoreOf(Len(calls)))
    /\ \A n \in CallIds :
          (calls[n].cb = "on_exit" /\ Len(AttemptsOf(n)) = 2) =>
             AttemptsOf(n)[1].detail = AttemptsOf(n)[2].detail

C17_Witness ==
    /\ fmt_details = "FromFields"
    /\ \E n \in CallIds, m \in CallIds :
          /\ calls[n].cb = "on_enter" /\ calls[n].id = 1 /\ calls[n].returned
          /\ AttemptsOf(n)[1].detail = Some("")
          /\ calls[m].cb = "on_exit" /\ calls[m].id = 1 /\ n < m
          /\ Len(AttemptsOf(m)) = 2
          /\ AttemptsOf(m)[2].detail = Some("b=2")

\* The step is the delivery of an on_new_span.
NewSpanStep == Len(calls') = Len(calls) + 1 /\ Last(calls').cb = "on_new_span"

(* C18: on_new_span attempts no mark and no measure and does not touch PERF;
   it leaves the new span's detail store as one add_details, on the store
   the span is created with and the span's initial fields, makes it, and
   leaves the other spans' stores alone; every host call made for a span
   comes from an on_record, on_enter or on_exit delivered after the span's
   on_new_span. *)
C18_NoMarkAtCreation ==
    NewSpanStep =>
       LET c == Last(calls')
       IN  /\ c.returned
           /\ timeline' = timeline
           /\ PERF' = PERF /\ perf_lookups' = perf_lookups
           /\ ~registry[c.id].live /\ registry'[c.id].live
           /\ registry'[c.id].ext =
                 add_details(fmt_details, registry[c.id].ext, c.fields, c.errAt)
           /\ \A i \in SpanIds \ {c.id} : registry'[i] = registry[i]

C18_FirstMarkLater ==
    \A k \in 1 .. Len(timeline) :
       LET n == timeline[k].call
       IN  /\ calls[n].cb \in Emitting
           /\ registry[calls[n].id].live
           /\ n > registry[calls[n].id].born
           /\ calls[registry[calls[n].id].born].cb = "on_new_span"

C18_NewSpan == []C18_FirstMarkLater /\ [][C18_NoMarkAtCreation]_vars

C18_Witness ==
    /\ fmt_details = "FromFields"
    /\ Len(calls) = 3
    /\ calls[1].cb = "on_new_span" /\ calls[2].cb = "on_enter"
    /\ calls[3].cb = "on_new_span" /\ calls[3].fields = <<"a=1">>
    /\ registry[2].ext = Some("a=1")
    /\ Len(timeline) = 1 /\ timeline[1].call = 2

\* The detail store of span id after its own callbacks among the first n:
\* add_details at its on_new_span, record_values at each of its on_record.
RECURSIVE Replay(_, _)
Replay(id, n) ==
    IF n = 0 THEN None
    ELSE IF calls[n].id = id /\ calls[n].cb = "on_new_span"
         THEN add_details(fmt_details, None, calls[n].fields, calls[n].errAt)
    ELSE IF calls[n].id = id /\ calls[n].cb = "on_record" /\ calls[n].returned
         THEN record_values(fmt_details, Replay(id, n - 1), calls[n].fields, calls[n].errAt)
    ELSE Replay(id, n - 1)

\* What a step may change of the spans: on_enter, on_exit and on_id_change
\* nothing, on_new_span and on_record only the span they are delivered for.
C20_Frame ==
    Len(calls') = Len(calls) + 1 =>
       LET c == Last(calls')
       IN  /\ c.cb \in {"on_enter", "on_exit", "on_id_change"} => registry' = registry
           /\ c.cb \in {"on_new_span", "on_record"} =>
                 \A i \in SpanIds \ {c.id} : registry'[i] = registry[i]
           /\ \A i \in SpanIds : registry[i].live =>
                 registry'[i].live /\ registry'[i].name = registry[i].name

\* The store of a span, and the detail of each of its marks and measures, is
\* what the span's own callbacks alone give.
C20_OwnCallbacks ==
    /\ \A id \in SpanIds :
          (registry[id].live /\ \A n \in CallsOn(id) : calls[n].returned) =>
             registry[id].ext = Replay(id, Len(calls))
    /\ \A k \in 1 .. Len(timeline) :
          LET n == timeline[k].call
          IN  /\ timeline[k].detail = find_details(fmt_details, Replay(calls[n].id, n))
              /\ timeline[k].name \in
                    {template_name(calls[n].id, registry[calls[n].id].name, e) : e \in EventKinds}

(* C20: in every step, on_enter, on_exit and on_id_change leave every span
   as it was, and on_new_span and on_record change no span but their own;
   the detail store of a span, and the name and the detail of every mark and
   measure made for it, are those its own callbacks alone produce, whatever
   callbacks of other spans are delivered in between. *)
C20_SpansIndependent == []C20_OwnCallbacks /\ [][C20_Frame]_vars

C20_Witness ==
    /\ fmt_details = "FromFields"
    /\ Len(calls) = 4
    /\ calls[1].cb = "on_new_span" /\ calls[2].cb = "on_new_span"
    /\ calls[3].cb = "on_record" /\ calls[3].id = 2 /\ calls[3].fields = <<"b=2">>
    /\ calls[4].cb = "on_enter" /\ calls[4].id = 1 /\ calls[4].returned
    /\ registry[1].ext = Some("a=1")
    /\ registry[2].ext = Some("b=2")
    /\ Last(timeline).detail = Some("a=1")

----------------------------------------------------------------------------
(* Properties of FormatSpanFromFields, checked under FormatSpanSpec *)

(* C19: with FormatSpanFromFields, add_details on extensions that hold a
   string leaves the string as it is; add_details and record_values on
   extensions that hold none insert the format of the call's fields alone,
   or nothing when the formatter fails; record_values on a string keeps that
   string and lets add_fields write after it: "a=1" and b=2 give "a=1 b=2",
   not "b=2". *)
C19_CreatedOnlyWhenEmpty ==
    calls # << >> =>
       LET c == Last(calls)
           before == ext_before[1]
           after == registry[1].ext
           alone == format_fields("", c.fields, Len(c.fields)).fields
       IN  /\ (c.cb = "add_details" /\ before.some) => after = before
           /\ ~before.some =>
                 after = IF c.errAt < Len(c.fields) THEN None ELSE Some(alone)
           /\ (c.cb = "record_values" /\ before.some) =>
                 /\ after.some
                 /\ StrIsPrefix(before.str, after.str)
                 /\ after.str = add_fields(before.str, c.fields, c.errAt).fields
                 /\ (before.str = "a=1" /\ c.fields = <<"b=2">> /\ c.errAt = 1) =>
                       after.str = "a=1 b=2"
                 /\ (before.str = "" /\ c.fields = <<"b=2">> /\ c.errAt = 1) =>
                       after.str = "b=2"

C19_Witness ==
    /\ Len(calls) = 4
    /\ calls[1].cb = "add_details" /\ calls[1].fields = <<"a=1">> /\ calls[1].errAt = 0
    /\ calls[2].cb = "record_values" /\ calls[2].fields = <<"b=2">>
    /\ calls[3].cb = "add_details" /\ calls[3].fields = <<"a=1">>
    /\ calls[4].cb = "record_values" /\ calls[4].fields = <<"b=2">>
    /\ ext_before[1] = Some("b=2")
    /\ registry[1].ext = Some("b=2 b=2")

----------------------------------------------------------------------------
(* Properties of entering and exiting, checked under EnterExitSpec *)

\* The on_enter and on_exit callbacks delivered for span id, in order.
EnterExitCalls(id) ==
    SelectSeq([n \in 1 .. Len(calls) |-> n],
              LAMBDA n : calls[n].id = id /\ calls[n].cb \in {"on_enter", "on_exit"})

\* The host calls attempted for span id, in order.
SpanAttempts(id) == SelectSeq(timeline, LAMBDA a : calls[a.call].id = id)

\* Span id was entered and exited, in turn, some number of times, every
\* callback returned and the host failed none of its calls.
EnteredAndExited(id) ==
    LET cs == EnterExitCalls(id)
        A == SpanAttempts(id)
    IN  /\ registry[id].live
        /\ Len(cs) % 2 = 0
        /\ \A k \in 1 .. Len(cs) :
              /\ calls[cs[k]].returned
              /\ calls[cs[k]].cb = IF k % 2 = 1 THEN "on_enter" ELSE "on_exit"
        /\ \A k \in 1 .. Len(A) : A[k].ok

(* C21: when a span named N with id I has been entered and exited n times in
   turn, every callback returned and no host call made for it failed, the
   host calls attempted for it are exactly 3n: for each j in 1..n, in this
   order, the mark "N [I]: span-enter" by the j-th on_enter, the mark
   "N [I]: span-exit" by the j-th on_exit and the measure
   "N [I]: span-measure" from the one mark to the other by the same on_exit;
   the names are the same in every round, whatever is delivered for other
   spans in between. *)
C21_Alternation ==
    \A id \in SpanIds :
       EnteredAndExited(id) =>
          LET cs == EnterExitCalls(id)
              A == SpanAttempts(id)
              n == Len(cs) \div 2
              prefix == registry[id].name \o " [" \o ToString(id) \o "]: "
          IN  /\ Len(A) = 3 * n
              /\ \A j \in 1 .. n :
                    /\ A[3 * j - 2].method = "mark"
                    /\ A[3 * j - 2].name = prefix \o "span-enter"
                    /\ A[3 * j - 2].call = cs[2 * j - 1]
                    /\ A[3 * j - 1].method = "mark"
                    /\ A[3 * j - 1].name = prefix \o "span-exit"
                    /\ A[3 * j - 1].call = cs[2 * j]
                    /\ A[3 * j].method = "measure"
                    /\ A[3 * j].name = prefix \o "span-measure"
                    /\ A[3 * j].start = prefix \o "span-enter"
                    /\ A[3 * j].end = prefix \o "span-exit"
                    /\ A[3 * j].call = cs[2 * j]

C21_Witness ==
    /\ EnteredAndExited(1)
    /\ Len(EnterExitCalls(1)) = 4
    /\ registry[2].live /\ registry[2].name = registry[1].name
    /\ Len(timeline) = 6
    /\ timeline[1].name = timeline[4].name
    /\ timeline[3].name = "req [1]: span-measure" /\ timeline[6].name = timeline[3].name
    /\ timeline[6].detail = Some("a=1")

----------------------------------------------------------------------------
(* MakeConsoleWriter beside MakeWebConsoleWriter: a subscriber with two fmt *)
(* layers, the first writing through MakeConsoleWriter and the second       *)
(* through MakeWebConsoleWriter::new().  Each record reaches both layers:   *)
(* each makes its writer for the record's metadata (or without), is handed  *)
(* the same formatted bytes and drops its writer.  The writers of a record  *)
(* are the last two of `writers`: the old maker's, then the new one's.      *)

\* <M as MakeWriter>::make_writer or make_writer_for of maker `by`, for a
\* record of level `meta` or for none.
MakeBy(by, meta) ==
    IF by.type = "MakeConsoleWriter"
    THEN IF meta = "none" THEN MakeConsoleWriter_make_writer(by)
         ELSE MakeConsoleWriter_make_writer_for(by, meta)
    ELSE IF meta = "none" THEN MakeWebConsoleWriter_make_writer(by)
         ELSE MakeWebConsoleWriter_make_writer_for(by, meta)

\* The console call of the drop of writer w, the i-th of the run.
DropCall(w, i) == dispatch(w.log, w.level, from_utf8_lossy(w.buffer), i)

OldWriter == Len(writers) - 1
WebWriter == Len(writers)

TwinInit ==
    /\ fmt_details = "Unit"
    /\ debug_build = "unread"
    /\ PERF = "uninit"
    /\ perf_lookups = 0
    /\ registry = [i \in SpanIds |-> NoSpan]
    /\ timeline = << >>
    /\ calls = << >>
    /\ ext_before = [i \in SpanIds |-> None]
    /\ console = << >>
    /\ maker = MakeConsoleWriter
    /\ writers = << >>

Twin_make(meta) ==
    /\ Len(writers) < 2 * MaxWriters
    /\ NoneLive
    /\ writers' = writers \o
                     << Made(MakeBy(MakeConsoleWriter, meta), MakeConsoleWriter, meta),
                        Made(MakeBy(MakeWebConsoleWriter_new, meta),
                             MakeWebConsoleWriter_new, meta) >>
    /\ UNCHANGED <<fmt_details, debug_build, PERF, perf_lookups, registry, timeline,
                   calls, ext_before, console, maker>>

Twin_write(buf) ==
    /\ ~NoneLive
    /\ TotalWrites < 2 * MaxWrites
    /\ writers' = [writers EXCEPT ![OldWriter].w.buffer = Vec_write(@, buf),
                                  ![OldWriter].written = Append(@, buf),
                                  ![OldWriter].state = "open",
                                  ![WebWriter].w.buffer = Vec_write(@, buf),
                                  ![WebWriter].written = Append(@, buf),
                                  ![WebWriter].state = "open"]
    /\ UNCHANGED <<fmt_details, debug_build, PERF, perf_lookups, registry, timeline,
                   calls, ext_before, console, maker>>

Twin_flush ==
    /\ ~NoneLive
    /\ writers[OldWriter].state = "open"
    /\ writers' = [writers EXCEPT ![OldWriter].state = "flushed",
                                  ![WebWriter].state = "flushed"]
    /\ UNCHANGED <<fmt_details, debug_build, PERF, perf_lookups, registry, timeline,
                   calls, ext_before, console, maker>>

Twin_drop ==
    /\ ~NoneLive
    /\ console' = console \o << DropCall(writers[OldWriter].w, OldWriter),
                                DropCall(writers[WebWriter].w, WebWriter) >>
    /\ writers' = [writers EXCEPT ![OldWriter].state = "dropped",
                                  ![WebWriter].state = "dropped"]
    /\ UNCHANGED <<fmt_details, debug_build, PERF, perf_lookups, registry, timeline,
                   calls, ext_before, maker>>

TwinNext ==
    \/ \E meta \in Levels \cup {"none"} : Twin_make(meta)
    \/ \E buf \in WriteBufs : Twin_write(buf)
    \/ Twin_flush
    \/ Twin_drop

TwinSpec == TwinInit /\ [][TwinNext]_vars

----------------------------------------------------------------------------
(* Properties of the two makers side by side, checked under TwinSpec *)

Records == 1 .. (Len(writers) \div 2)

(* C22: for every record, the writer of MakeConsoleWriter and the writer of
   MakeWebConsoleWriter::new(), made for the same metadata (or for none) and
   handed the same writes, are the same ConsoleWriter (buffer, level and
   dispatcher) at every moment; neither makes a console call before its
   drop, and at its drop each makes exactly one, the two with the same
   method and the same single argument, the message. *)
C22_SameAsWeb ==
    \A r \in Records :
       LET old == writers[2 * r - 1]
           web == writers[2 * r]
       IN  /\ old.maker = MakeConsoleWriter /\ web.maker = MakeWebConsoleWriter_new
           /\ old.meta = web.meta /\ old.written = web.written
           /\ old.w = web.w
           /\ Cardinality(WriterCalls(2 * r - 1)) = IF old.state = "dropped" THEN 1 ELSE 0
           /\ Cardinality(WriterCalls(2 * r)) = IF web.state = "dropped" THEN 1 ELSE 0
           /\ \A c \in WriterCalls(2 * r - 1), d \in WriterCalls(2 * r) :
                 /\ console[c].method = console[d].method
                 /\ console[c].args = console[d].args
                 /\ Len(console[c].args) = 1
                 /\ MessageOf(c) = from_utf8_lossy(WrittenBytes(2 * r))

C22_Witness ==
    /\ Len(writers) = 4 /\ Len(console) = 4
    /\ writers[1].meta = "none" /\ writers[1].written = << <<97, 98>> >>
    /\ writers[3].meta = "WARN" /\ writers[3].written = << <<195>> >>
    /\ console[1].method = "log" /\ console[1].args = << <<97, 98>> >>
    /\ console[2].method = "log" /\ console[2].args = << <<97, 98>> >>
    /\ console[3].method = "warn" /\ console[3].args = << <<65533>> >>
    /\ console[4].method = "warn" /\ console[4].args = << <<65533>> >>
    /\ console[1].writer = 1 /\ console[2].writer = 2

====
